---- MODULE Spec2Model ----
(***************************************************************************)
(* The simple source finder of 6_Deconvolution/6_5_source_finding.ipynb:   *)
(* mad_mean, gauss2D, fit_gaussian and source_finder.                      *)
(*                                                                         *)
(* Pixel values are integers.  The noise estimate and the two thresholds   *)
(* are rationals with denominator NoiseUnit(data) (the squared pixel       *)
(* count) and are held as their numerators, so every comparison of the     *)
(* code is exact.  Grid coordinates and fitted centres are held in units   *)
(* of 1/CoordUnit pixel, sizes in units of 1/1000 pixel.                   *)
(* optimize.leastsq is an external solver: its result is a                 *)
(* nondeterministic choice among parameter vectors near the initial guess, *)
(* or a failure (no covariance).                                           *)
(***************************************************************************)
EXTENDS Integers, Sequences, FiniteSets, TLC

\* ---------------------------------------------------------------- bounds
ImgSize == 6
MaxVal == 3
MaxDeviations == 1
MaxIter == 6

\* ------------------------------------------------------------- constants
\* FWHM = 2*np.sqrt(2*np.log(2)), in units of 1/1000
FWHM == 2355
\* denominator of the np.linspace grid coordinates
CoordUnit == 6

VARIABLES
    pc,              \* "start", "running", "done" (returned), "raised"
    data, peak, boundary, width, psf_pix,     \* the arguments of source_finder
    sigma_noise, peak_sigma, boundary_sigma,  \* numerators over NoiseUnit(data)
    pad, residual, model, catalog,
    max_pix, xpix, ypix,                      \* locals of the loop body
    params, gmodel,                           \* params and _model of the last fit
    returned,                                 \* the value returned to the caller
    error,                                    \* the exception that reached the caller
    niter, ndev, bad_fit,                     \* bookkeeping of the bounded exploration
    fits             \* history: subim_slice and _model of every recorded detection

vars == <<pc, data, peak, boundary, width, psf_pix, sigma_noise, peak_sigma,
          boundary_sigma, pad, residual, model, catalog, max_pix, xpix, ypix,
          params, gmodel, returned, error, niter, ndev, bad_fit, fits>>

\* ------------------------------------------------------------ arithmetic
Abs(v) == IF v < 0 THEN -v ELSE v

RECURSIVE Pow2(_)
Pow2(k) == IF k <= 0 THEN 1 ELSE 2 * Pow2(k - 1)

\* integer division rounding toward zero
Quot(a, b) == IF a >= 0 THEN a \div b ELSE -((-a) \div b)

\* a 2D array a of nr rows and nc columns is a function of the row index whose
\* values are functions of the column index, a[i][j], both indexed from 0
Shape(a) == <<Cardinality(DOMAIN a), IF a = <<>> THEN 0 ELSE Cardinality(DOMAIN a[0])>>

Cells(a) == (DOMAIN a) \X (0 .. Shape(a)[2] - 1)

Values(a) == {a[i][j] : i \in DOMAIN a, j \in 0 .. Shape(a)[2] - 1}

\* the sum of f[0 .. n-1]
RECURSIVE SumTo(_, _)
SumTo(f, n) == IF n = 0 THEN 0 ELSE f[n - 1] + SumTo(f, n - 1)

\* a.sum()
ArrSum(a) == SumTo([i \in DOMAIN a |-> SumTo(a[i], Shape(a)[2])], Shape(a)[1])

SetMax(S) == CHOOSE v \in S : \A u \in S : u <= v

SetMin(S) == CHOOSE v \in S : \A u \in S : v <= u

\* a.max()
ArrMax(a) == SetMax(Values(a))

\* np.where(a == v): the first match in row-major order
FirstWhere(a, v) ==
    LET nc == Shape(a)[2]
        first == SetMin({q[1] * nc + q[2] : q \in {c \in Cells(a) : a[c[1]][c[2]] = v}})
    IN <<first \div nc, first % nc>>

\* ------------------------------------------------------------- mad_mean
\* the denominator of mad_mean(a): (number of samples)^2
NoiseUnit(a) == (Shape(a)[1] * Shape(a)[2]) * (Shape(a)[1] * Shape(a)[2])

\* np.mean(abs(a - np.mean(a))), as a numerator over NoiseUnit(a)
mad_mean(a) ==
    LET K == Shape(a)[1] * Shape(a)[2]
        S == ArrSum(a)
    IN ArrSum([i \in DOMAIN a |-> [j \in DOMAIN a[i] |-> Abs(K * a[i][j] - S)]])

\* --------------------------------------------------------------- slices
\* a slice bound i resolved on an axis of length len, as numpy does
SliceBound(i, len) ==
    IF i < 0 THEN (IF i + len < 0 THEN 0 ELSE i + len)
    ELSE IF i > len THEN len ELSE i

\* slice(start, stop) on an axis of length len: first index and length
Slice(start, stop, len) ==
    LET lo == SliceBound(start, len)
        hi == SliceBound(stop, len)
    IN [lo |-> lo, n |-> IF hi > lo THEN hi - lo ELSE 0]

\* subim_slice: the box of size width around (x, y), on a square array of side P
subim_slice(x, y, w, P) ==
    <<Slice(x - (w \div 2), x + (w \div 2), P), Slice(y - (w \div 2), y + (w \div 2), P)>>

\* a[sl]: the sub-array, indexed from 0
Sub(a, sl) ==
    [i \in 0 .. sl[1].n - 1 |-> [j \in 0 .. sl[2].n - 1 |-> a[sl[1].lo + i][sl[2].lo + j]]]

InSlice(p, sl) ==
    /\ sl[1].lo <= p[1] /\ p[1] < sl[1].lo + sl[1].n
    /\ sl[2].lo <= p[2] /\ p[2] < sl[2].lo + sl[2].n

Local(p, sl) == <<p[1] - sl[1].lo, p[2] - sl[2].lo>>

\* np.pad(a, ((pad, pad), (pad, pad)), mode="constant") of a square array of side n
Padded(a, n, pd) ==
    [i \in 0 .. n + 2 * pd - 1 |-> [j \in 0 .. n + 2 * pd - 1 |->
        IF /\ pd <= i /\ i < pd + n /\ pd <= j /\ j < pd + n
        THEN a[i - pd][j - pd] ELSE 0]]

\* a[imslice], imslice = [slice(pad, -pad), slice(pad, -pad)], a square of side P
Cropped(a, P, pd) == Sub(a, <<Slice(pd, -pd, P), Slice(pd, -pd, P)>>)

\* ------------------------------------------------- gauss2D, fit_gaussian
\* np.linspace(0, n, n)[i], in units of 1/CoordUnit
Lin(i, n) == IF n <= 1 THEN 0 ELSE (i * n * CoordUnit) \div (n - 1)

\* amp * np.exp(-num/den) in fixed point: one halving per ln 2 of the exponent,
\* rounded toward zero
ExpNeg(amp, num, den) ==
    LET h == (1000 * num) \div (693 * den)
    IN IF h > 30 THEN 0 ELSE Quot(amp, Pow2(h))

\* gauss2D: x, y and the means in units of 1/CoordUnit, the sigmas in pixels
gauss2D(x, y, amp, mean_x, mean_y, sigma_x, sigma_y) ==
    LET gx_num == (x - mean_x) * (x - mean_x)
        gx_den == 2 * sigma_x * sigma_x * CoordUnit * CoordUnit
        gy_num == (y - mean_y) * (y - mean_y)
        gy_den == 2 * sigma_y * sigma_y * CoordUnit * CoordUnit
    IN ExpNeg(amp, gx_num * gy_den + gy_num * gx_den, gx_den * gy_den)

\* model = gauss2D(xx, yy, *params) on xx, yy = np.meshgrid(x, y):
\* xx[i, j] = x[j], yy[i, j] = y[i]
FitModel(p, npix_x, npix_y) ==
    [i \in 0 .. npix_y - 1 |-> [j \in 0 .. npix_x - 1 |->
        gauss2D(Lin(j, npix_x), Lin(i, npix_y),
                p.amp, p.mean_x, p.mean_y, p.sigma_x, p.sigma_y)]]

AllZero(d) == Values(d) \subseteq {0}

\* the exceptions a call fit_gaussian(d, psf) followed by model[subim_slice] = _model
\* ends in when no fit of d can succeed: data.max() of an empty array, leastsq's
\* refusal of fewer samples than parameters, np.diagonal(pcov) of pcov = None
\* (all the samples zero), and for a window that is not square either that or
\* the assignment of the transposed model
FitErrors(d, npix_x, npix_y) ==
    IF npix_x = 0 \/ npix_y = 0 THEN {"EmptyWindow"}
    ELSE IF npix_x * npix_y < 5 THEN {"ImproperInput"}
    ELSE IF AllZero(d) THEN {"NoCovariance"}
    ELSE {"NoCovariance", "ShapeMismatch"}

FitCanSucceed(d, npix_x, npix_y) ==
    npix_x = npix_y /\ npix_x * npix_y >= 5 /\ ~AllZero(d)

Params(amp, mean_x, mean_y, sigma_x, sigma_y, dev) ==
    [amp |-> amp, mean_x |-> mean_x, mean_y |-> mean_y,
     sigma_x |-> sigma_x, sigma_y |-> sigma_y, dev |-> dev]

\* the parameter vectors leastsq may return from params0 = (data.max(), width/2,
\* width/2, psf_pix, psf_pix): the brightest sample fitted exactly (dev = 0), or a
\* result that differs from it in the amplitude, the centre or the sigma (dev = 1)
Outcomes(amp0, at, npix_x, npix_y, psf) ==
    LET c == CoordUnit * (npix_x \div 2)
        bx == Lin(at[2], npix_x)
        by == Lin(at[1], npix_y)
    IN { Params(amp0, bx, by, psf, psf, 0),
         Params(amp0 - 1, bx, by, psf, psf, 1),
         Params(-1, bx, by, psf, psf, 1),
         Params(amp0, c, c, psf, psf, 1),
         Params(amp0, c + CoordUnit, c, psf, psf, 1),
         Params(amp0, c, c - CoordUnit, psf, psf, 1),
         Params(amp0, bx, by, psf + 1, psf + 1, 1) }

FitOutcomes(d, npix_x, npix_y, psf) ==
    UNION {Outcomes(amp0, at, npix_x, npix_y, psf) :
              amp0 \in {ArrMax(d)}, at \in {FirstWhere(d, ArrMax(d))}}

\* -------------------------------------------------------- source_finder
BreakCondLe(mx, thr, unit) == mx * unit <= thr

\* max_pix < peak_sigma
BreakCond(mx, thr, unit) == mx * unit < thr

\* subimage * (subimage > boundary_sigma)
Masked(sub, thr, unit) ==
    [i \in DOMAIN sub |-> [j \in DOMAIN sub[i] |->
        IF sub[i][j] * unit > thr THEN sub[i][j] ELSE 0]]

\* pos = pix + (width/2 - mean) - pad, in units of 1/CoordUnit
Position(pix, w, mean, pd) == CoordUnit * (pix + (w \div 2) - pd) - mean

AccumulateModel(mod, sl, gm) ==
    [i \in DOMAIN mod |-> [j \in DOMAIN mod[i] |->
        IF InSlice(<<i, j>>, sl) THEN mod[i][j] + gm[i - sl[1].lo][j - sl[2].lo]
        ELSE mod[i][j]]]

\* model[subim_slice] = _model
WriteModel(mod, sl, gm) ==
    [i \in DOMAIN mod |-> [j \in DOMAIN mod[i] |->
        IF InSlice(<<i, j>>, sl) THEN gm[i - sl[1].lo][j - sl[2].lo] ELSE mod[i][j]]]

AddModel(res, sl, gm) ==
    [i \in DOMAIN res |-> [j \in DOMAIN res[i] |->
        IF InSlice(<<i, j>>, sl) THEN res[i][j] + gm[i - sl[1].lo][j - sl[2].lo]
        ELSE res[i][j]]]

KeepResidual(res, sl, gm) == res

\* residual[subim_slice] -= _model
SubtractModel(res, sl, gm) ==
    [i \in DOMAIN res |-> [j \in DOMAIN res[i] |->
        IF InSlice(<<i, j>>, sl) THEN res[i][j] - gm[i - sl[1].lo][j - sl[2].lo]
        ELSE res[i][j]]]

\* the fitted image lowers the peak pixel and raises no pixel
GoodFit(gm, at) ==
    /\ \A v \in Values(gm) : v >= 0
    /\ <<at[1], at[2]>> \in Cells(gm)
    /\ gm[at[1]][at[2]] >= 1

\* ---------------------------------------------------------------- inputs
Vals == -1 .. MaxVal
Backgrounds == {-1, 0}
\* the (peak, boundary) multipliers: those of the notebook's call, a smaller
\* pair, and a pair with boundary = peak
Configs == {<<5, 2>>, <<2, 1>>, <<2, 2>>}
Widths == {4}

\* a block of side blk and value a at (1, 1), a pixel of value s in the last
\* corner, background b elsewhere
Image(b, a, blk, s) ==
    [i \in 0 .. ImgSize - 1 |-> [j \in 0 .. ImgSize - 1 |->
        IF i = ImgSize - 1 /\ j = ImgSize - 1 THEN s
        ELSE IF i \in 1 .. blk /\ j \in 1 .. blk THEN a
        ELSE b]]

Constant(v) == [i \in 0 .. ImgSize - 1 |-> [j \in 0 .. ImgSize - 1 |-> v]]

\* a pixel of value a in the first corner and one of value s in the last
\* corner, background b elsewhere
TwoCorners(b, a, s) ==
    [i \in 0 .. ImgSize - 1 |-> [j \in 0 .. ImgSize - 1 |->
        IF i = 0 /\ j = 0 THEN a
        ELSE IF i = ImgSize - 1 /\ j = ImgSize - 1 THEN s
        ELSE b]]

Images ==
    UNION {{Image(b, a, 1, s) : a \in Vals, s \in {b, MaxVal}} : b \in Backgrounds}
        \cup UNION {{Image(b, MaxVal, ImgSize \div 2, s) : s \in {b, MaxVal}} :
                       b \in Backgrounds}
        \cup {Constant(v) : v \in {-1, 0, 1}}
        \cup {TwoCorners(b, MaxVal, s) : b \in Backgrounds, s \in {MaxVal - 1, MaxVal}}

NoParams == Params(0, 0, 0, 0, 0, 0)

Init ==
    /\ pc = "start"
    /\ data \in Images
    /\ \E cfg \in Configs : peak = cfg[1] /\ boundary = cfg[2]
    /\ width \in Widths
    /\ psf_pix = 1
    /\ sigma_noise = 0 /\ peak_sigma = 0 /\ boundary_sigma = 0
    /\ pad = 0 /\ residual = <<>> /\ model = <<>> /\ catalog = <<>>
    /\ max_pix = 0 /\ xpix = 0 /\ ypix = 0
    /\ params = NoParams /\ gmodel = <<>>
    /\ returned = <<>>
    /\ error = "none"
    /\ niter = 0 /\ ndev = 0 /\ bad_fit = FALSE
    /\ fits = <<>>

\* lines 327-345: the noise estimate, the thresholds, the padded arrays
Setup ==
    /\ pc = "start"
    /\ sigma_noise' = mad_mean(data)
    /\ peak_sigma' = mad_mean(data) * peak
    /\ boundary_sigma' = mad_mean(data) * boundary
    /\ pad' = width * 2
    /\ residual' = Padded(data, ImgSize, width * 2)
    /\ model' = [i \in 0 .. ImgSize + 4 * width - 1 |->
                    [j \in 0 .. ImgSize + 4 * width - 1 |-> 0]]
    /\ catalog' = <<>>
    /\ pc' = "running"
    /\ UNCHANGED <<data, peak, boundary, width, psf_pix, max_pix, xpix, ypix,
                   params, gmodel, returned, error, niter, ndev, bad_fit, fits>>

Side == ImgSize + 2 * pad

\* lines 351-353 and 402: the peak is below the threshold, the loop is left
Break ==
    /\ pc = "running"
    /\ BreakCond(ArrMax(residual), peak_sigma, NoiseUnit(data))
    /\ max_pix' = ArrMax(residual)
    /\ returned' = [catalog |-> catalog,
                    model |-> Cropped(model, Side, pad),
                    residual |-> Cropped(residual, Side, pad),
                    sigma_noise |-> sigma_noise]
    /\ pc' = "done"
    /\ UNCHANGED <<data, peak, boundary, width, psf_pix, sigma_noise, peak_sigma,
                   boundary_sigma, pad, residual, model, catalog, xpix, ypix,
                   params, gmodel, error, niter, ndev, bad_fit, fits>>

\* lines 351-400: one iteration whose fit succeeds
Iterate ==
    /\ pc = "running"
    /\ niter < MaxIter
    /\ \E mx \in {ArrMax(residual)} :
       \E at \in {FirstWhere(residual, mx)} :
       \E sl \in {subim_slice(at[1], at[2], width, Side)} :
       \E sub \in {Sub(residual, sl)} :
       \E d \in {Masked(sub, boundary_sigma, NoiseUnit(data))} :
          /\ ~BreakCond(mx, peak_sigma, NoiseUnit(data))
          /\ FitCanSucceed(d, sl[1].n, sl[2].n)
          /\ \E p \in FitOutcomes(d, sl[1].n, sl[2].n, psf_pix) :
             \E gm \in {FitModel(p, sl[1].n, sl[2].n)} :
                /\ ndev + p.dev <= MaxDeviations
                /\ max_pix' = mx /\ xpix' = at[1] /\ ypix' = at[2]
                /\ params' = p /\ gmodel' = gm
                /\ model' = WriteModel(model, sl, gm)
                /\ catalog' = Append(catalog,
                       <<p.amp, Position(at[1], width, p.mean_x, pad),
                         Position(at[2], width, p.mean_y, pad),
                         FWHM * p.sigma_x, FWHM * p.sigma_y>>)
                /\ residual' = SubtractModel(residual, sl, gm)
                /\ ndev' = ndev + p.dev
                /\ bad_fit' = (bad_fit \/ ~GoodFit(gm, Local(at, sl)))
                /\ fits' = Append(fits, [sl |-> sl, gm |-> gm])
    /\ niter' = niter + 1
    /\ UNCHANGED <<pc, data, peak, boundary, width, psf_pix, sigma_noise, peak_sigma,
                   boundary_sigma, pad, returned, error>>

\* lines 351-385: one iteration on a window no fit can succeed on; nothing
\* catches the exception
IterateRaise ==
    /\ pc = "running"
    /\ \E mx \in {ArrMax(residual)} :
       \E at \in {FirstWhere(residual, mx)} :
       \E sl \in {subim_slice(at[1], at[2], width, Side)} :
       \E sub \in {Sub(residual, sl)} :
       \E d \in {Masked(sub, boundary_sigma, NoiseUnit(data))} :
          /\ ~BreakCond(mx, peak_sigma, NoiseUnit(data))
          /\ ~FitCanSucceed(d, sl[1].n, sl[2].n)
          /\ max_pix' = mx /\ xpix' = at[1] /\ ypix' = at[2]
          /\ error' \in FitErrors(d, sl[1].n, sl[2].n)
    /\ pc' = "raised"
    /\ bad_fit' = TRUE
    /\ UNCHANGED <<data, peak, boundary, width, psf_pix, sigma_noise, peak_sigma,
                   boundary_sigma, pad, residual, model, catalog, params, gmodel,
                   returned, niter, ndev, fits>>

\* lines 351-371, 303-308: one iteration in which leastsq returns no covariance
\* for a window it could have fitted; np.diagonal(None) raises
IterateFitFails ==
    /\ pc = "running"
    /\ \E mx \in {ArrMax(residual)} :
       \E at \in {FirstWhere(residual, mx)} :
       \E sl \in {subim_slice(at[1], at[2], width, Side)} :
       \E sub \in {Sub(residual, sl)} :
       \E d \in {Masked(sub, boundary_sigma, NoiseUnit(data))} :
          /\ ~BreakCond(mx, peak_sigma, NoiseUnit(data))
          /\ FitCanSucceed(d, sl[1].n, sl[2].n)
          /\ max_pix' = mx /\ xpix' = at[1] /\ ypix' = at[2]
    /\ error' = "NoCovariance"
    /\ pc' = "raised"
    /\ bad_fit' = TRUE
    /\ UNCHANGED <<data, peak, boundary, width, psf_pix, sigma_noise, peak_sigma,
                   boundary_sigma, pad, residual, model, catalog, params, gmodel,
                   returned, niter, ndev, fits>>

Next == Setup \/ Break \/ Iterate \/ IterateRaise \/ IterateFitFails

Spec == Init /\ [][Next]_vars

\* the interpreter runs the call on; only the solver's failure on a window it
\* could have fitted is not forced
FairSpec == Init /\ [][Next]_vars /\ WF_vars(Setup \/ Break \/ Iterate \/ IterateRaise)

\* ================================================================ claims
NU == NoiseUnit(data)

Last == catalog[Len(catalog)]

\* the box [xpix - width/2, xpix + width/2) x [ypix - width/2, ypix + width/2)
Window == subim_slice(xpix, ypix, width, Side)

IsConstant(a) == Cardinality(Values(a)) = 1

\* C1: when the fit of an iteration fails (no usable covariance), no exception
\* reaches the caller: source_finder returns the catalog accumulated so far.
C1_FitFailureReturnsNormally ==
    error = "NoCovariance" => (pc = "done" /\ returned.catalog = catalog)

\* C2: a call with boundary >= peak fails with InvalidConfiguration before the
\* noise is estimated and the arrays are allocated; no iteration is executed.
C2_InvalidConfigurationRejected ==
    boundary >= peak => (pc = "start" \/ (pc = "raised" /\ error = "InvalidConfiguration"))

\* C3 (as claimed): a residual maximum exactly equal to peak_sigma (here with
\* peak_sigma > 0) ends the loop without a fit and without a record.
C3_EqualPeakExcluded ==
    [][(pc = "running" /\ peak_sigma > 0 /\ SetMax(Values(residual)) * NU = peak_sigma)
          => (pc' = "done" /\ catalog' = catalog)]_vars

\* C3 (amended): a residual maximum equal to or above peak_sigma never ends the
\* loop: the iteration fits it, and records it with that peak or raises out of
\* the fit; only a maximum strictly below peak_sigma ends the loop, with no record.
C3_PeakAtThresholdIsFitted ==
    [][/\ (pc = "running" /\ SetMax(Values(residual)) * NU >= peak_sigma)
            => /\ pc' # "done"
               /\ max_pix' = SetMax(Values(residual))
               /\ \/ (pc' = "running" /\ Len(catalog') = Len(catalog) + 1)
                  \/ (pc' = "raised" /\ catalog' = catalog)
       /\ (pc = "running" /\ SetMax(Values(residual)) * NU < peak_sigma)
            => (pc' = "done" /\ catalog' = catalog)]_vars

C3_Witness ==
    /\ pc = "running" /\ Len(catalog) = 1
    /\ peak_sigma > 0 /\ max_pix * NU = peak_sigma

\* C4: for an all-zero or constant image no fit is run and the catalog returned
\* is empty: the loop is left at the first peak test.
C4_ConstantImageEmptyCatalog ==
    (IsConstant(data) /\ pc # "start")
        => (pc \in {"running", "done"} /\ catalog = <<>> /\ niter = 0 /\ error = "none")

\* C5: with peak_sigma > 0 and every fitted image non-negative on its window and
\* positive at the peak pixel, the loop eventually reaches DONE.
C5_GoodFitsTerminate ==
    <>(pc = "done" \/ bad_fit \/ (pc # "start" /\ peak_sigma <= 0))

C5_Witness ==
    pc = "done" /\ ~bad_fit /\ peak_sigma > 0 /\ Len(returned.catalog) >= 3

\* C6: on return every pixel of the returned residual is strictly below
\* peak_sigma, and the first peak test of a second extraction over it (padded
\* again, same peak_sigma) leaves the loop.
C6_ReturnedResidualBelowThreshold ==
    pc = "done" =>
        /\ \A v \in Values(returned.residual) : v * NU < peak_sigma
        /\ SetMax(Values(Padded(returned.residual, ImgSize, pad))) * NU < peak_sigma

C6_Witness ==
    /\ pc = "done" /\ Len(returned.catalog) >= 1
    /\ \E v \in Values(returned.residual) : v > 0

\* C7 (as claimed): the amplitudes of successive catalog entries are
\* non-increasing.
C7_AmplitudesNonIncreasing ==
    \A k \in 1 .. Len(catalog) - 1 : catalog[k + 1][1] <= catalog[k][1]

\* C7 (amended): the peak brightness at which successive entries are detected is
\* non-increasing whenever the fitted image subtracted in between is
\* non-negative; the fitted amplitudes are not ordered.
C7_PeaksNonIncreasing ==
    [][(/\ Len(catalog) >= 1 /\ Len(catalog') = Len(catalog) + 1
        /\ \A v \in Values(gmodel) : v >= 0)
          => max_pix' <= max_pix]_vars

C7_Witness ==
    /\ Len(catalog) = 2 /\ ~bad_fit
    /\ catalog[2][1] > catalog[1][1]

\* C8: the recorded position is the window start plus the fitted local centre,
\* less the padding: (xpix - width/2 + mean_x - pad, ypix - width/2 + mean_y - pad).
C8_PositionIsWindowStartPlusCentre ==
    (pc = "running" /\ Len(catalog) >= 1) =>
        /\ Last[2] = CoordUnit * (xpix - (width \div 2) - pad) + params.mean_x
        /\ Last[3] = CoordUnit * (ypix - (width \div 2) - pad) + params.mean_y

\* C9: for a positive even width not larger than the image, the window around
\* the peak pixel of every iteration lies inside the padded array.
C9_WindowInsidePaddedArray ==
    (/\ width > 0 /\ width % 2 = 0 /\ width <= ImgSize
     /\ (niter > 0 \/ pc = "raised"))
        => /\ 0 <= xpix - (width \div 2) /\ xpix + (width \div 2) <= Side
           /\ 0 <= ypix - (width \div 2) /\ ypix + (width \div 2) <= Side

\* C10: a successful iteration overwrites model and lowers residual by the fitted
\* image inside the window, appends one record, and leaves everything else as it
\* was: the pixels outside the window, the noise and the thresholds, the input
\* image and the earlier records.
C10_IterationFrame ==
    [][catalog' # catalog =>
        /\ Len(catalog') = Len(catalog) + 1
        /\ SubSeq(catalog', 1, Len(catalog)) = catalog
        /\ UNCHANGED <<data, sigma_noise, peak_sigma, boundary_sigma>>
        /\ \A i \in DOMAIN residual : \A j \in DOMAIN residual[i] :
              IF InSlice(<<i, j>>, Window')
              THEN /\ model'[i][j] = gmodel'[i - Window'[1].lo][j - Window'[2].lo]
                   /\ residual'[i][j] = residual[i][j] - model'[i][j]
              ELSE /\ model'[i][j] = model[i][j]
                   /\ residual'[i][j] = residual[i][j]]_vars

C10_Witness ==
    /\ Len(catalog) = 2
    /\ \E i \in DOMAIN model : \E j \in DOMAIN model[i] :
          ~InSlice(<<i, j>>, Window) /\ model[i][j] # 0
    /\ \E i \in DOMAIN model : \E j \in DOMAIN model[i] :
          InSlice(<<i, j>>, Window) /\ model[i][j] # 0

\* the fitted images of the detections recorded so far whose window covers
\* cell p, summed at p
RECURSIVE FitsAt(_, _)
FitsAt(p, k) ==
    IF k = 0 THEN 0
    ELSE FitsAt(p, k - 1)
           + (IF InSlice(p, fits[k].sl)
              THEN fits[k].gm[Local(p, fits[k].sl)[1]][Local(p, fits[k].sl)[2]]
              ELSE 0)

\* two windows share a cell
Overlap(s, t) ==
    /\ s[1].lo < t[1].lo + t[1].n /\ t[1].lo < s[1].lo + s[1].n
    /\ s[2].lo < t[2].lo + t[2].n /\ t[2].lo < s[2].lo + s[2].n

NoOverlap == \A k, l \in 1 .. Len(fits) : k < l => ~Overlap(fits[k].sl, fits[l].sl)

\* C11: once the arrays are set up, at every pixel of the padded array the
\* zero-padded input equals the residual plus the sum of the fitted images of
\* all recorded detections whose window covers the pixel; and when the call
\* has returned and no two detection windows overlap, input = residual + model
\* at every pixel of the returned arrays.
C11_FluxAccounting ==
    /\ pc # "start" =>
          /\ Len(fits) = Len(catalog)
          /\ LET padded == Padded(data, ImgSize, pad)
             IN \A i, j \in 0 .. Side - 1 :
                   padded[i][j] = residual[i][j] + FitsAt(<<i, j>>, Len(fits))
    /\ (pc = "done" /\ NoOverlap) =>
          \A i, j \in 0 .. ImgSize - 1 :
             data[i][j] = returned.residual[i][j] + returned.model[i][j]

\* the call has returned two detections whose windows do not overlap, each
\* with a fitted image that is not zero
C11_Witness ==
    /\ pc = "done"
    /\ Len(fits) = 2
    /\ NoOverlap
    /\ \A k \in 1 .. 2 : \E v \in Values(fits[k].gm) : v # 0
    /\ \E v \in Values(returned.model) : v # 0
====
